---- MODULE Spec2Model ----
(***************************************************************************)
(* Realtime state-synchronisation engine of the GhostRooms chat client:    *)
(* the SocketProvider of src/src/context/SocketContext.tsx (the variant    *)
(* that tracks participants, uploads and disconnect()) together with the   *)
(* notification store of src/src/components/chat/useEventNotifications.tsx *)
(***************************************************************************)
EXTENDS Integers, Sequences, FiniteSets, TLC

\* ------------------------------------------------------------------ bounds
MaxMsgId == 3
MaxHist == 2
MaxMsgs == 3
MaxNotifs == 2
MaxEmit == 2
MaxFiles == 2
MaxBatches == 2
MaxTime == 6000
MaxSeconds == 125

\* -------------------------------------------------------- program constants
DedupWindowMs == 5000
DefaultDuration == 5000

\* ------------------------------------------------------------------ inputs
MsgIds == 1..MaxMsgId
Nicks == {"alice", "bob"}
Reasons == {"expired"}
TickSteps == {500, 1000}
Durations == {0, 2000}

\* The sender of the server message with a given id.
SenderOf(i) == IF i % 2 = 1 THEN "alice" ELSE "bob"

\* A Message as the server sends it (id, sender nickname).
ServerMessage(i) == [id |-> i, nickname |-> SenderOf(i)]

RECURSIVE SeqsUpTo(_, _)
SeqsUpTo(S, n) ==
  IF n = 0 THEN {<<>>}
  ELSE LET shorter == SeqsUpTo(S, n - 1)
       IN shorter \cup {Append(s, x) : s \in {t \in shorter : Len(t) = n - 1}, x \in S}

\* The message histories a room_joined payload may carry: oldest first, an id
\* possibly listed more than once.
Histories ==
  {h \in SeqsUpTo(MsgIds, MaxHist) : \A k \in 1..(Len(h) - 1) : h[k] <= h[k + 1]}

\* participants / participantCount of a membership payload; the list may be
\* missing from the payload.
MemberPayloads ==
  { [participantCount |-> 1, present |-> TRUE, participants |-> <<"alice">>],
    [participantCount |-> 2, present |-> TRUE, participants |-> <<"alice", "bob">>],
    [participantCount |-> 2, present |-> FALSE, participants |-> <<>>] }

\* expiresIn of a room_ttl_warning, in seconds, and the message of an error
\* event, which may be empty.
ExpiresIn == {90, 300}
TtlSeconds == 0..MaxSeconds
ErrorMessages == {"", "Room not found"}

\* The File objects handed to sendImage / sendFile, told apart by a number:
\* the first n files in either order.
Ascending(n) == [k \in 1..n |-> k]
Descending(n) == [k \in 1..n |-> n + 1 - k]
FileLists == {Ascending(n) : n \in 0..MaxFiles} \cup {Descending(n) : n \in 0..MaxFiles}

\* The optional caption / description: not given, empty, or a text.
Undefined == "<undefined>"
Null == "<null>"
Captions == {Undefined, "", "look"}

\* The arguments of joinRoom(roomToken, sessionToken, nickname).
JoinArgs ==
  { [roomToken |-> "r1", sessionToken |-> "s1", nickname |-> "alice"],
    [roomToken |-> "r2", sessionToken |-> "s2", nickname |-> "bob"] }

VARIABLES
  socket,          \* the channel object exists (setSocket(newSocket) has run)
  conn,            \* channel state: Idle, Connecting, Connected, Disconnected
  messages,        \* UIMessage[]
  participantCount,
  participants,
  nickname,
  roomToken,
  sessionToken,
  isReconnecting,
  shouldShowJoinNotification,
  uploading,
  batches,         \* the sendImage / sendFile calls started so far
  sendBuffer,      \* commands emitted while the channel was not connected
  emitted,         \* commands written on the channel by the last step
  deferred,        \* setTimeout(..., 0) callbacks not yet run
  notifications,   \* the notification queue
  timers,          \* pending auto-dismiss timers
  now,             \* Date.now()
  last             \* the operation of the last step

vars == << socket, conn, messages, participantCount, participants, nickname,
           roomToken, sessionToken, isReconnecting, shouldShowJoinNotification,
           uploading, batches, sendBuffer, emitted, deferred, notifications,
           timers, now, last >>

storeVars == << messages, participantCount, participants, nickname, roomToken,
                sessionToken, isReconnecting, shouldShowJoinNotification >>
chanVars == << socket, conn, sendBuffer >>
notifVars == << deferred, notifications, timers >>
sendVars == << uploading, batches >>

\* ----------------------------------------------------------------- helpers
\* A step that carried no membership payload.
NoPayload == [participantCount |-> 0, present |-> FALSE, participants |-> <<>>]

\* What the last step did: the operation with its numeric and textual
\* argument, the history a room_joined carried and the membership payload of
\* a room_joined, user_joined or user_left.
Op(op, id, nick) ==
  [op |-> op, id |-> id, nick |-> nick, hist |-> <<>>, p |-> NoPayload]

connected == socket /\ conn = "Connected"

\* The ids of server messages and of synthesized notices share one shape.
ServerId(i) == [kind |-> "srv", nick |-> "", n |-> i]
SystemId(kind, nick, t) == [kind |-> kind, nick |-> nick, n |-> t]

NoContent == [nick |-> "", text |-> ""]

\* isMine against the nickname held when the handlers were registered.
isMineAtRegistration(m, myNickname) == m.nickname = ""

isMine(m, myNickname) == m.nickname = myNickname

toUIMessage(m, myNickname) ==
  [ id |-> ServerId(m.id), nickname |-> m.nickname, content |-> NoContent,
    createdAt |-> 0, isMine |-> isMine(m, myNickname), isSystem |-> FALSE ]

RECURSIVE MapHistory(_, _)
MapHistory(h, myNickname) ==
  IF h = <<>> THEN <<>>
  ELSE <<toUIMessage(ServerMessage(Head(h)), myNickname)>>
         \o MapHistory(Tail(h), myNickname)

Note(type, text, arg, num) == [type |-> type, text |-> text, arg |-> arg, num |-> num]

\* ------------------------------------------------- Notification Emitter
NotifIds(q) == {q[k].id : k \in DOMAIN q}
LiveIds == NotifIds(notifications) \cup {t.id : t \in timers}

\* The sendImage / sendFile calls that still await their uploads.
InFlight == Cardinality({b \in DOMAIN batches : batches[b].state = "uploading"})

\* Bound of the model: room for k more notifications, beside the one every
\* call still uploading is going to raise.
NotifRoom(k) == Len(deferred) + Cardinality(LiveIds) + InFlight + k <= MaxNotifs

IdPool == MaxNotifs + MaxBatches * MaxFiles + 1

\* Math.random().toString(36).substring(2, 9): an id no live entry carries.
FreshId(q, ts) ==
  CHOOSE i \in 1..IdPool :
    /\ i \notin NotifIds(q) \cup {t.id : t \in ts}
    /\ \A j \in 1..(i - 1) : j \in NotifIds(q) \cup {t.id : t \in ts}

\* notification.duration || 5000: a duration of 0 taken for a missing one.
EffectiveDurationOr(d) == IF d = -1 \/ d = 0 THEN DefaultDuration ELSE d

\* notification.duration ?? 5000; a missing duration is written -1.
EffectiveDuration(d) == IF d = -1 THEN DefaultDuration ELSE d

\* addNotification: the queue and the timers after adding `note`.
QueueAdd(q, ts, note, d) ==
  Append(q, [id |-> FreshId(q, ts), type |-> note.type, text |-> note.text,
             arg |-> note.arg, num |-> note.num, duration |-> d])

\* A timer only for a duration that was given.
TimersAddExplicitOnly(q, ts, d) ==
  IF d > 0 THEN ts \cup {[id |-> FreshId(q, ts), at |-> now + d]} ELSE ts

\* if (duration > 0) setTimeout(..., duration).
TimersAdd(q, ts, d) ==
  IF EffectiveDuration(d) > 0
    THEN ts \cup {[id |-> FreshId(q, ts), at |-> now + EffectiveDuration(d)]}
    ELSE ts

\* A filter that drops the entry with the id and every entry added before it.
FilterOutThrough(q, id) ==
  IF id \in NotifIds(q)
    THEN LET k == CHOOSE j \in DOMAIN q : q[j].id = id
         IN SubSeq(q, k + 1, Len(q))
    ELSE q

\* A filter that drops the oldest entry when no entry carries the id.
FilterOutOrOldest(q, id) ==
  IF id \in NotifIds(q) THEN SelectSeq(q, LAMBDA n : n.id # id)
  ELSE IF q = <<>> THEN q ELSE Tail(q)

FilterOut(q, id) == SelectSeq(q, LAMBDA n : n.id # id)

\* --------------------------------------------------------------- channel
Cmd(name, a, b, n) == [cmd |-> name, a |-> a, b |-> b, n |-> n, att |-> <<>>]

\* The send_message command of an attachment call: type, content, attachments.
SendCmd(type, content, attachments) ==
  [Cmd("send_message", type, content, Len(attachments)) EXCEPT !.att = attachments]

\* An emit that writes on the channel whatever its state.
EmitNowUnbuffered(c, cmds) == cmds

\* socket.emit: written on the channel when it is connected, kept in the
\* channel's send buffer otherwise.
EmitNow(c, cmds) == IF c = "Connected" THEN cmds ELSE <<>>
BufferAfter(c, buf, cmds) == IF c = "Connected" THEN buf ELSE buf \o cmds

\* socket.connect(): opens the channel unless it is opening or open.
AfterConnectCall(c) == IF c \in {"Connecting", "Connected"} THEN c ELSE "Connecting"

\* A socket.disconnect() that leaves the channel as it is.
AfterDisconnectCallKeepsChannel(c) == c

\* socket.disconnect(): closes the channel.
AfterDisconnectCall(c) == IF c = "Idle" THEN "Idle" ELSE "Disconnected"

\* A sendImage / sendFile call: its kind, its arguments (input, caption), the
\* state of each file's upload (pending, ok, failed) and whether the call
\* still awaits Promise.all.
\* `passed` records that a command of a call made later went to the channel
\* while this call was still awaiting its uploads.
IdleBatch ==
  [kind |-> "", input |-> <<>>, caption |-> "", files |-> <<>>, state |-> "idle",
   passed |-> FALSE]

\* The calls still awaiting their uploads see a later command go by.
Overtaken(bs) ==
  [b \in DOMAIN bs |->
     IF bs[b].state = "uploading" THEN [bs[b] EXCEPT !.passed = TRUE] ELSE bs[b]]

\* Bound of the model: room in the send buffer for cmds and for the command
\* of every call still uploading.
BufferRoom(cmds) ==
  conn # "Connected" => Len(sendBuffer) + InFlight + Len(cmds) <= MaxEmit

Init ==
  /\ socket = FALSE
  /\ conn = "Idle"
  /\ messages = <<>>
  /\ participantCount = 0
  /\ participants = <<>>
  /\ nickname = ""
  /\ roomToken = ""
  /\ sessionToken = ""
  /\ isReconnecting = FALSE
  /\ shouldShowJoinNotification = TRUE
  /\ uploading = FALSE
  /\ batches = [b \in 1..MaxBatches |-> IdleBatch]
  /\ sendBuffer = <<>>
  /\ emitted = <<>>
  /\ deferred = <<>>
  /\ notifications = <<>>
  /\ timers = {}
  /\ now = 0
  /\ last = Op("init", 0, "")

\* The mount effect: the channel is created (autoConnect: false) and the
\* handlers are registered.
Mount ==
  /\ ~socket
  /\ socket' = TRUE
  /\ emitted' = <<>>
  /\ last' = Op("mount", 0, "")
  /\ UNCHANGED << conn, sendBuffer, storeVars, sendVars, notifVars, now >>

\* The connect handshake completes: buffered commands are flushed, then the
\* 'connect' handler runs (setConnected(true)).
ConnectOk ==
  /\ socket /\ conn = "Connecting"
  /\ conn' = "Connected"
  /\ emitted' = sendBuffer
  /\ sendBuffer' = <<>>
  /\ last' = Op("connect", 0, "")
  /\ UNCHANGED << socket, storeVars, sendVars, notifVars, now >>

\* A channel that reopens by itself when it is lost.
LossStateReconnecting == "Connecting"

\* The state of a channel that was lost or failed to open: with
\* reconnection: false it stays closed.
LossState == "Disconnected"

\* The handshake fails: no handler is registered for connect_error.
ConnectError ==
  /\ socket /\ conn = "Connecting"
  /\ conn' = LossState
  /\ emitted' = <<>>
  /\ last' = Op("connect_error", 0, "")
  /\ UNCHANGED << socket, sendBuffer, storeVars, sendVars, notifVars, now >>

\* The transport is lost: the 'disconnect' handler runs (setConnected(false)).
TransportLoss ==
  /\ connected
  /\ conn' = LossState
  /\ emitted' = <<>>
  /\ last' = Op("disconnect_event", 0, "")
  /\ UNCHANGED << socket, sendBuffer, storeVars, sendVars, notifVars, now >>

\* The cleanup of the mount effect and the unmount of the provider: the
\* channel is closed and the provider's state is gone.  Bound of the model: no
\* attachment call is in progress.
Unmount ==
  /\ socket
  /\ \A b \in 1..MaxBatches : batches[b].state = "idle"
  /\ socket' = FALSE
  /\ conn' = "Idle"
  /\ sendBuffer' = <<>>
  /\ messages' = <<>>
  /\ participantCount' = 0
  /\ participants' = <<>>
  /\ nickname' = ""
  /\ roomToken' = ""
  /\ sessionToken' = ""
  /\ isReconnecting' = FALSE
  /\ shouldShowJoinNotification' = TRUE
  /\ uploading' = FALSE
  /\ emitted' = <<>>
  /\ last' = Op("unmount", 0, "")
  /\ UNCHANGED << batches, notifVars, now >>

\* An interval that is never cleared once the channel exists.
HeartbeatActiveAlways == socket

\* The heartbeat effect holds an interval while socket && connected.
HeartbeatActive == socket /\ conn = "Connected"

\* The interval callback: socket.emit('heartbeat').
Heartbeat ==
  /\ HeartbeatActive
  /\ BufferRoom(<<0>>)
  /\ emitted' = EmitNow(conn, << Cmd("heartbeat", "", "", 0) >>)
  /\ sendBuffer' = BufferAfter(conn, sendBuffer, << Cmd("heartbeat", "", "", 0) >>)
  /\ last' = Op("heartbeat", 0, "")
  /\ UNCHANGED << socket, conn, storeVars, sendVars, notifVars, now >>

\* ------------------------------------------------------ Event Dispatcher
\* username_set: the server confirms a username; the list is left as it is.
UsernameSet(u) ==
  /\ connected
  /\ nickname' = u
  /\ emitted' = <<>>
  /\ last' = Op("username_set", 0, u)
  /\ UNCHANGED << chanVars, messages, participantCount, participants, roomToken,
                  sessionToken, isReconnecting, shouldShowJoinNotification, sendVars,
                  notifVars, now >>

MessageIds(ms) == {ms[k].id : k \in DOMAIN ms}

\* room_joined that always loads the history in place of the list.
ReplaceByHistory(prevMessages, historyMessages) == historyMessages

\* room_joined that takes a list of system notices only for an empty one.
MergeUnlessOnlyNotices(prevMessages, historyMessages) ==
  IF \A k \in DOMAIN prevMessages : prevMessages[k].isSystem
    THEN historyMessages
    ELSE prevMessages
           \o SelectSeq(historyMessages, LAMBDA m : m.id \notin MessageIds(prevMessages))

\* room_joined: replace an empty list by the history, merge otherwise.
MergeHistory(prevMessages, historyMessages) ==
  IF Len(prevMessages) = 0
    THEN historyMessages
    ELSE prevMessages
           \o SelectSeq(historyMessages, LAMBDA m : m.id \notin MessageIds(prevMessages))

\* The join notice without its one-shot flag.
ShowJoinAlways == ~isReconnecting

ShowJoinNotification == shouldShowJoinNotification /\ ~isReconnecting

\* A payload without a list taken to mean: keep the list.
PayloadParticipantsKept(p) == IF p.present THEN p.participants ELSE participants

PayloadParticipants(p) == IF p.present THEN p.participants ELSE <<>>

RoomJoined(p, h) ==
  /\ connected
  /\ ShowJoinNotification => NotifRoom(1)
  /\ LET merged == MergeHistory(messages, MapHistory(h, nickname))
     IN /\ Len(merged) <= MaxMsgs
        /\ messages' = merged
  /\ participantCount' = p.participantCount
  /\ participants' = PayloadParticipants(p)
  /\ IF ShowJoinNotification
       THEN /\ deferred' = Append(deferred, Note("success", "Joined room successfully!", "", 0))
            /\ shouldShowJoinNotification' = FALSE
       ELSE UNCHANGED << deferred, shouldShowJoinNotification >>
  /\ isReconnecting' = FALSE
  /\ emitted' = <<>>
  /\ last' = [Op("room_joined", Len(messages), "") EXCEPT !.hist = h, !.p = p]
  /\ UNCHANGED << socket, conn, sendBuffer, nickname, roomToken, sessionToken,
                  sendVars, notifications, timers, now >>

\* new_message that puts the entry in front of the list.
PrependIfNew(prev, uiMessage) ==
  IF \E k \in DOMAIN prev : prev[k].id = uiMessage.id
    THEN prev
    ELSE << uiMessage >> \o prev

\* new_message without the duplicate check.
AppendAlways(prev, uiMessage) == Append(prev, uiMessage)

\* new_message: append unless an entry already carries the id.
AppendIfNew(prev, uiMessage) ==
  IF \E k \in DOMAIN prev : prev[k].id = uiMessage.id
    THEN prev
    ELSE Append(prev, uiMessage)

NewMessage(i) ==
  /\ connected
  /\ Len(AppendIfNew(messages, toUIMessage(ServerMessage(i), nickname))) <= MaxMsgs
  /\ messages' = AppendIfNew(messages, toUIMessage(ServerMessage(i), nickname))
  /\ emitted' = <<>>
  /\ last' = Op("new_message", i, "")
  /\ UNCHANGED << socket, conn, sendBuffer, participantCount, participants, nickname,
                  roomToken, sessionToken, isReconnecting, shouldShowJoinNotification,
                  sendVars, notifVars, now >>

\* A removal that stops at the first entry with the id.
RemoveFirstById(prev, id) ==
  IF \E k \in DOMAIN prev : prev[k].id = id
    THEN LET k == CHOOSE j \in DOMAIN prev :
                    prev[j].id = id /\ \A i \in 1..(j - 1) : prev[i].id # id
         IN SubSeq(prev, 1, k - 1) \o SubSeq(prev, k + 1, Len(prev))
    ELSE prev

RemoveById(prev, id) == SelectSeq(prev, LAMBDA m : m.id # id)

\* message_deleted with the notification raised inside the handler.
MessageDeletedDirect(i) ==
  /\ connected
  /\ NotifRoom(1)
  /\ messages' = RemoveById(messages, ServerId(i))
  /\ notifications' = QueueAdd(notifications, timers, Note("info", "Message deleted", "", 0), -1)
  /\ timers' = TimersAdd(notifications, timers, -1)
  /\ emitted' = <<>>
  /\ last' = Op("message_deleted", i, "")
  /\ UNCHANGED << socket, conn, sendBuffer, participantCount, participants, nickname,
                  roomToken, sessionToken, isReconnecting, shouldShowJoinNotification,
                  sendVars, deferred, now >>

MessageDeleted(i) ==
  /\ connected
  /\ NotifRoom(1)
  /\ messages' = RemoveById(messages, ServerId(i))
  /\ deferred' = Append(deferred, Note("info", "Message deleted", "", 0))
  /\ emitted' = <<>>
  /\ last' = Op("message_deleted", i, "")
  /\ UNCHANGED << socket, conn, sendBuffer, participantCount, participants, nickname,
                  roomToken, sessionToken, isReconnecting, shouldShowJoinNotification,
                  sendVars, notifications, timers, now >>

\* Math.round(data.expiresIn / 60).
MinutesRounded(expiresIn) == (expiresIn + 30) \div 60

\* Math.floor(data.expiresIn / 60).
Minutes(expiresIn) == expiresIn \div 60

\* room_ttl_warning: the warning tells the whole minutes left.
RoomTtlWarning(expiresIn) ==
  /\ connected
  /\ NotifRoom(1)
  /\ deferred' = Append(deferred, Note("warning", "Room expires in minutes", "", Minutes(expiresIn)))
  /\ emitted' = <<>>
  /\ last' = Op("room_ttl_warning", expiresIn, "")
  /\ UNCHANGED << chanVars, storeVars, sendVars, notifications, timers, now >>

\* The text of the error event taken as it comes.
ErrorTextRaw(message) == message

\* errorData.message || 'An error occurred'.
ErrorText(message) == IF message = "" THEN "An error occurred" ELSE message

\* error: an application error sent by the server.
ServerError(message) ==
  /\ connected
  /\ NotifRoom(1)
  /\ deferred' = Append(deferred, Note("error", ErrorText(message), "", 0))
  /\ emitted' = <<>>
  /\ last' = Op("error", 0, message)
  /\ UNCHANGED << chanVars, storeVars, sendVars, notifications, timers, now >>

\* room_closed that also ends the session, as leaveRoom does.
RoomClosedEndsSession(reason) ==
  /\ connected
  /\ NotifRoom(1)
  /\ deferred' = Append(deferred, Note("error", "Room closed: ", reason, 0))
  /\ messages' = <<>>
  /\ participantCount' = 0
  /\ participants' = <<>>
  /\ roomToken' = ""
  /\ sessionToken' = ""
  /\ emitted' = <<>>
  /\ last' = Op("room_closed", Len(messages), reason)
  /\ UNCHANGED << socket, conn, sendBuffer, nickname, isReconnecting,
                  shouldShowJoinNotification, sendVars, notifications, timers, now >>

\* room_closed as written before the participant list existed.
RoomClosedKeepsParticipants(reason) ==
  /\ connected
  /\ NotifRoom(1)
  /\ deferred' = Append(deferred, Note("error", "Room closed: ", reason, 0))
  /\ messages' = <<>>
  /\ participantCount' = 0
  /\ emitted' = <<>>
  /\ last' = Op("room_closed", Len(messages), reason)
  /\ UNCHANGED << socket, conn, sendBuffer, participants, nickname, roomToken,
                  sessionToken, isReconnecting, shouldShowJoinNotification,
                  sendVars, notifications, timers, now >>

RoomClosed(reason) ==
  /\ connected
  /\ NotifRoom(1)
  /\ deferred' = Append(deferred, Note("error", "Room closed: ", reason, 0))
  /\ messages' = <<>>
  /\ participantCount' = 0
  /\ participants' = <<>>
  /\ emitted' = <<>>
  /\ last' = Op("room_closed", Len(messages), reason)
  /\ UNCHANGED << socket, conn, sendBuffer, nickname, roomToken, sessionToken,
                  isReconnecting, shouldShowJoinNotification, sendVars,
                  notifications, timers, now >>

SystemNotice(kind, text, nick) ==
  [ id |-> SystemId(kind, nick, now), nickname |-> "System",
    content |-> [nick |-> nick, text |-> text], createdAt |-> now,
    isMine |-> FALSE, isSystem |-> TRUE ]

\* A system message of the same content younger than five seconds.
isDuplicate(prev, systemMessage) ==
  \E k \in DOMAIN prev :
    /\ prev[k].isSystem
    /\ prev[k].content = systemMessage.content
    /\ prev[k].createdAt > now - DedupWindowMs

AppendNotice(prev, systemMessage) ==
  IF isDuplicate(prev, systemMessage) THEN prev ELSE Append(prev, systemMessage)

\* The notifications user_joined schedules, given the list it found.
JoinedNotes(prev, nick) == << Note("info", " joined the room", nick, 0) >>

UserJoined(nick, p) ==
  /\ connected
  /\ Len(AppendNotice(messages, SystemNotice("system-join", " joined the room", nick))) <= MaxMsgs
  /\ NotifRoom(Len(JoinedNotes(messages, nick)))
  /\ participantCount' = p.participantCount
  /\ participants' = PayloadParticipants(p)
  /\ messages' = AppendNotice(messages, SystemNotice("system-join", " joined the room", nick))
  /\ deferred' = deferred \o JoinedNotes(messages, nick)
  /\ emitted' = <<>>
  /\ last' = [Op("user_joined", 0, nick) EXCEPT !.p = p]
  /\ UNCHANGED << socket, conn, sendBuffer, nickname, roomToken, sessionToken,
                  isReconnecting, shouldShowJoinNotification, sendVars,
                  notifications, timers, now >>

\* user_left: the notice is appended and the notification scheduled whatever
\* the list holds.
UserLeft(nick, p) ==
  /\ connected
  /\ Len(messages) + 1 <= MaxMsgs
  /\ NotifRoom(1)
  /\ participantCount' = p.participantCount
  /\ participants' = PayloadParticipants(p)
  /\ messages' = Append(messages, SystemNotice("system-left", " left the room", nick))
  /\ deferred' = Append(deferred, Note("info", " left the room", nick, 0))
  /\ emitted' = <<>>
  /\ last' = [Op("user_left", 0, nick) EXCEPT !.p = p]
  /\ UNCHANGED << socket, conn, sendBuffer, nickname, roomToken, sessionToken,
                  isReconnecting, shouldShowJoinNotification, sendVars,
                  notifications, timers, now >>

\* setUsername(username): opens the channel when it is not connected.
SetUsername(u) ==
  /\ socket
  /\ BufferRoom(<<0>>)
  /\ conn' = AfterConnectCall(conn)
  /\ emitted' = EmitNow(conn, << Cmd("set_username", u, "", 0) >>)
  /\ sendBuffer' = BufferAfter(conn, sendBuffer, << Cmd("set_username", u, "", 0) >>)
  /\ last' = Op("setUsername", 0, u)
  /\ UNCHANGED << socket, storeVars, sendVars, notifVars, now >>

\* ------------------------------------------------- Outbound Command API
\* joinRoom(roomTkn, sessionTkn, nick): returns at once without a channel.
JoinRoom(a) ==
  /\ IF ~socket
       THEN /\ emitted' = <<>>
            /\ UNCHANGED << conn, sendBuffer, roomToken, sessionToken, nickname,
                            isReconnecting, shouldShowJoinNotification >>
       ELSE /\ BufferRoom(<<0>>)
            /\ roomToken' = a.roomToken
            /\ sessionToken' = a.sessionToken
            /\ nickname' = a.nickname
            /\ isReconnecting' = FALSE
            /\ shouldShowJoinNotification' = TRUE
            /\ conn' = AfterConnectCall(conn)
            /\ emitted' = EmitNow(conn, << Cmd("join_room", a.roomToken, a.sessionToken, 0) >>)
            /\ sendBuffer' = BufferAfter(conn, sendBuffer, << Cmd("join_room", a.roomToken, a.sessionToken, 0) >>)
  /\ last' = Op("joinRoom", 0, a.nickname)
  /\ UNCHANGED << socket, messages, participantCount, participants, sendVars,
                  notifVars, now >>

\* leaveRoom that forgets to clear the room and session tokens.
LeaveRoomKeepsTokens ==
  /\ socket
  /\ BufferRoom(<<0>>)
  /\ emitted' = EmitNow(conn, << Cmd("leave_room", "", "", 0) >>)
  /\ sendBuffer' = BufferAfter(conn, sendBuffer, << Cmd("leave_room", "", "", 0) >>)
  /\ messages' = <<>>
  /\ participantCount' = 0
  /\ participants' = <<>>
  /\ last' = Op("leaveRoom", Len(messages), "")
  /\ UNCHANGED << socket, conn, nickname, roomToken, sessionToken, isReconnecting,
                  shouldShowJoinNotification, sendVars, notifVars, now >>

\* leaveRoom().

LeaveRoom ==
  /\ socket
  /\ BufferRoom(<<0>>)
  /\ emitted' = EmitNow(conn, << Cmd("leave_room", "", "", 0) >>)
  /\ sendBuffer' = BufferAfter(conn, sendBuffer, << Cmd("leave_room", "", "", 0) >>)
  /\ messages' = <<>>
  /\ participantCount' = 0
  /\ participants' = <<>>
  /\ roomToken' = ""
  /\ sessionToken' = ""
  /\ last' = Op("leaveRoom", Len(messages), "")
  /\ UNCHANGED << socket, conn, nickname, isReconnecting, shouldShowJoinNotification,
                  sendVars, notifVars, now >>

\* A disconnect() that sends leave_room whether or not a room is held.
LeaveCmdsAlways(token) == << Cmd("leave_room", "", "", 0) >>

\* disconnect(): leave_room only when a room token is held, then the channel
\* is closed and the whole store, nickname included, is cleared.  `last` tells
\* a call that directly follows another disconnect().
LeaveCmds(token) == IF token # "" THEN << Cmd("leave_room", "", "", 0) >> ELSE <<>>

Disconnect ==
  /\ socket
  /\ BufferRoom(LeaveCmds(roomToken))
  /\ emitted' = EmitNow(conn, LeaveCmds(roomToken))
  /\ sendBuffer' = BufferAfter(conn, sendBuffer, LeaveCmds(roomToken))
  /\ conn' = AfterDisconnectCall(conn)
  /\ messages' = <<>>
  /\ participantCount' = 0
  /\ participants' = <<>>
  /\ roomToken' = ""
  /\ sessionToken' = ""
  /\ nickname' = ""
  /\ last' = Op("disconnect", Len(messages), IF last.op = "disconnect" THEN "again" ELSE "")
  /\ UNCHANGED << socket, isReconnecting, shouldShowJoinNotification, sendVars,
                  notifVars, now >>

NotConnectedNote == Note("error", "Not connected to server", "", 0)

\* The guard of the send commands without its `connected` half.
SendGuardSocketOnly == socket

\* The guard of the send commands: a channel, and connected.
SendGuardOk == socket /\ conn = "Connected"

\* sendMessage(content) and sendSticker(sticker): type is TEXT or STICKER.

SendMessage(type) ==
  /\ IF ~SendGuardOk
       THEN /\ NotifRoom(1)
            /\ notifications' = QueueAdd(notifications, timers, NotConnectedNote, -1)
            /\ timers' = TimersAdd(notifications, timers, -1)
            /\ emitted' = <<>>
            /\ UNCHANGED batches
       ELSE /\ emitted' = << Cmd("send_message", type, "", 0) >>
            /\ batches' = Overtaken(batches)
            /\ UNCHANGED << notifications, timers >>
  /\ last' = Op(IF type = "TEXT" THEN "sendMessage" ELSE "sendSticker", 0, type)
  /\ UNCHANGED << socket, conn, sendBuffer, storeVars, uploading, deferred, now >>

\* deleteMessage that removes the entry from the list at once.
ListAfterDeleteOptimistic(prev, i) == RemoveById(prev, ServerId(i))

\* The message list after deleteMessage(messageId): the command has no
\* setMessages call.
ListAfterDelete(prev, i) == prev

\* deleteMessage(messageId).
DeleteMessage(i) ==
  /\ IF ~SendGuardOk
       THEN /\ NotifRoom(1)
            /\ notifications' = QueueAdd(notifications, timers, NotConnectedNote, -1)
            /\ timers' = TimersAdd(notifications, timers, -1)
            /\ emitted' = <<>>
            /\ UNCHANGED << messages, batches >>
       ELSE /\ emitted' = << Cmd("delete_message", "", "", i) >>
            /\ messages' = ListAfterDelete(messages, i)
            /\ batches' = Overtaken(batches)
            /\ UNCHANGED << notifications, timers >>
  /\ last' = Op("deleteMessage", i, "")
  /\ UNCHANGED << socket, conn, sendBuffer, participantCount, participants, nickname,
                  roomToken, sessionToken, isReconnecting, shouldShowJoinNotification,
                  uploading, deferred, now >>

\* ------------------------------------------------ two-phase attachment send
AllOk(files) == \A k \in DOMAIN files : files[k] = "ok"
AnyFailed(files) == \E k \in DOMAIN files : files[k] = "failed"
AnyPending(files) == \E k \in DOMAIN files : files[k] = "pending"

\* A slot is free when no call and no upload of a call occupies it.
SlotFree(batch) == batch.state = "idle"

\* The uploads started by the calls that occupy a slot.
RECURSIVE FilesStarted(_)
FilesStarted(b) ==
  IF b = 0 THEN 0
  ELSE FilesStarted(b - 1) + (IF SlotFree(batches[b]) THEN 0 ELSE Len(batches[b].files))

FreeSlot == CHOOSE b \in 1..MaxBatches :
              /\ SlotFree(batches[b])
              /\ \A c \in 1..(b - 1) : ~SlotFree(batches[c])

SentNote(kind, n) ==
  Note("success", IF kind = "IMAGE" THEN "Sent image(s)" ELSE "Sent file(s)", "", n)
FailedNote(kind) ==
  Note("error", IF kind = "IMAGE" THEN "Failed to send images" ELSE "Failed to send files", "", 0)

\* Promise.all over the uploads: rejected by the first failure, fulfilled by
\* the last success.
PromiseAllSettled(files) == AnyFailed(files) \/ AllOk(files)

\* result.attachment: what the upload endpoint answers for a file.
Attachment(file) == [id |-> file, fileName |-> file]

\* Attachments listed last file first.
AttachmentsReversed(input) ==
  [k \in DOMAIN input |-> Attachment(input[Len(input) + 1 - k])]

\* Promise.all(files.map(upload)): the attachments in the order of the files.
Attachments(input) == [k \in DOMAIN input |-> Attachment(input[k])]

\* caption || null.
ContentOf(caption) == IF caption = Undefined \/ caption = "" THEN Null ELSE caption

\* The attachments of the files uploaded so far, in the order of the files.
UploadedSoFar(input, files) ==
  LET pairs == [k \in DOMAIN files |-> [file |-> input[k], state |-> files[k]]]
      done == SelectSeq(pairs, LAMBDA p : p.state = "ok")
  IN [k \in DOMAIN done |-> Attachment(done[k].file)]

\* A call that sends whatever was uploaded.
SettleCmdsPartial(call, files) ==
  << SendCmd(call.kind, ContentOf(call.caption), UploadedSoFar(call.input, files)) >>

\* What the call does once Promise.all has settled: the commands it emits
\* (try block) and the notification it raises (try or catch block).
SettleCmds(call, files) ==
  IF AllOk(files)
    THEN << SendCmd(call.kind, ContentOf(call.caption), Attachments(call.input)) >>
    ELSE <<>>
SettleNote(kind, files) ==
  IF AllOk(files) THEN SentNote(kind, Len(files)) ELSE FailedNote(kind)

\* The flag cleared at the end of the try block only.
UploadingUnlessFailed(files) == AnyFailed(files) /\ uploading

\* The finally block: setUploading(false).
UploadingAfterSettle(files) == FALSE

\* sendImage(files, caption) / sendFile(files, description) up to the await.
SendAttachment(kind, input, caption) ==
  /\ IF ~SendGuardOk
       THEN /\ NotifRoom(1)
            /\ notifications' = QueueAdd(notifications, timers, NotConnectedNote, -1)
            /\ timers' = TimersAdd(notifications, timers, -1)
            /\ emitted' = <<>>
            /\ UNCHANGED << uploading, batches >>
       ELSE IF Len(input) = 0
         THEN \* Promise.all([]) is fulfilled within the same turn.
              /\ NotifRoom(1)
              /\ emitted' = SettleCmds([kind |-> kind, input |-> input, caption |-> caption], <<>>)
              /\ notifications' = QueueAdd(notifications, timers, SettleNote(kind, <<>>), -1)
              /\ timers' = TimersAdd(notifications, timers, -1)
              /\ uploading' = UploadingAfterSettle(<<>>)
              /\ UNCHANGED batches
         ELSE /\ \E b \in 1..MaxBatches : SlotFree(batches[b])
              /\ FilesStarted(MaxBatches) + Len(input) <= MaxFiles
              /\ NotifRoom(1)
              /\ uploading' = TRUE
              /\ batches' = [batches EXCEPT ![FreeSlot] =
                               [kind |-> kind, input |-> input, caption |-> caption,
                                files |-> [k \in DOMAIN input |-> "pending"],
                                state |-> "uploading", passed |-> FALSE]]
              /\ emitted' = <<>>
              /\ UNCHANGED << notifications, timers >>
  /\ last' = Op(IF kind = "IMAGE" THEN "sendImage" ELSE "sendFile", Len(input), kind)
  /\ UNCHANGED << socket, conn, sendBuffer, storeVars, deferred, now >>

\* One upload of call b settles; when that settles Promise.all the call
\* resumes in the same turn: emit or catch, then finally.  The slot is
\* released with the last upload of the call.
UploadSettle(b, f, ok) ==
  /\ batches[b].state # "idle"
  /\ f \in DOMAIN batches[b].files
  /\ batches[b].files[f] = "pending"
  /\ LET kind == batches[b].kind
         files == [batches[b].files EXCEPT ![f] = IF ok THEN "ok" ELSE "failed"]
         resumes == batches[b].state = "uploading" /\ PromiseAllSettled(files)
     IN IF resumes
          THEN /\ emitted' = EmitNow(conn, SettleCmds(batches[b], files))
               /\ sendBuffer' = BufferAfter(conn, sendBuffer, SettleCmds(batches[b], files))
               /\ notifications' = QueueAdd(notifications, timers, SettleNote(kind, files), -1)
               /\ timers' = TimersAdd(notifications, timers, -1)
               /\ uploading' = UploadingAfterSettle(files)
               /\ batches' = [batches EXCEPT ![b] =
                     IF AnyPending(files)
                       THEN [batches[b] EXCEPT !.files = files, !.state = "settled"]
                       ELSE IdleBatch]
          ELSE /\ batches' = [batches EXCEPT ![b] =
                     IF AnyPending(files) THEN [@ EXCEPT !.files = files] ELSE IdleBatch]
               /\ emitted' = <<>>
               /\ UNCHANGED << sendBuffer, notifications, timers, uploading >>
  /\ last' = Op(IF ok THEN "upload_ok" ELSE "upload_failed", b, batches[b].kind)
  /\ UNCHANGED << socket, conn, storeVars, deferred, now >>

\* ------------------------------------------- notification store actions
\* A deferred callback runs: notifications.<kind>(title) without a duration.
RunDeferred ==
  /\ deferred # <<>>
  /\ notifications' = QueueAdd(notifications, timers, Head(deferred), -1)
  /\ timers' = TimersAdd(notifications, timers, -1)
  /\ deferred' = Tail(deferred)
  /\ emitted' = <<>>
  /\ last' = Op("notify", FreshId(notifications, timers), Head(deferred).type)
  /\ UNCHANGED << chanVars, storeVars, sendVars, now >>

\* addNotification called with an explicit duration.
AddNotification(d) ==
  /\ NotifRoom(1)
  /\ notifications' = QueueAdd(notifications, timers, Note("info", "notice", "", 0), d)
  /\ timers' = TimersAdd(notifications, timers, d)
  /\ emitted' = <<>>
  /\ last' = Op("addNotification", FreshId(notifications, timers), "")
  /\ UNCHANGED << chanVars, storeVars, sendVars, deferred, now >>

\* removeNotification(id): the user dismisses a card (or any caller).
RemoveNotification(id) ==
  /\ notifications' = FilterOut(notifications, id)
  /\ emitted' = <<>>
  /\ last' = Op("removeNotification", id, "")
  /\ UNCHANGED << chanVars, storeVars, sendVars, deferred, timers, now >>

\* The auto-dismiss timer of notification t.id fires.
TimerFire(t) ==
  /\ t \in timers
  /\ t.at <= now
  /\ notifications' = FilterOut(notifications, t.id)
  /\ timers' = timers \ {t}
  /\ emitted' = <<>>
  /\ last' = Op("timer", t.id, IF t.id \in NotifIds(notifications) THEN "expired" ELSE "")
  /\ UNCHANGED << chanVars, storeVars, sendVars, deferred, now >>

\* Time passes; a timer that is due runs before the clock moves on.
Tick(dt) ==
  /\ now + dt <= MaxTime
  /\ deferred = <<>>
  /\ \A t \in timers : t.at >= now + dt
  /\ now' = now + dt
  /\ emitted' = <<>>
  /\ last' = Op("tick", 0, "")
  /\ UNCHANGED << chanVars, storeVars, sendVars, notifVars >>

\* ------------------------------------------------------- specifications
AliceSession == [roomToken |-> "r1", sessionToken |-> "s1", nickname |-> "alice"]
SoloPayload == [participantCount |-> 1, present |-> TRUE, participants |-> <<"alice">>]

\* A room_joined payload for a room of two.
DuoPayload == [participantCount |-> 2, present |-> TRUE, participants |-> <<"alice", "bob">>]

\* The whole system.
Next ==
  \/ Mount
  \/ Unmount
  \/ ConnectOk
  \/ ConnectError
  \/ TransportLoss
  \/ Heartbeat
  \/ \E u \in Nicks : SetUsername(u)
  \/ \E a \in JoinArgs : JoinRoom(a)
  \/ LeaveRoom
  \/ Disconnect
  \/ \E type \in {"TEXT", "STICKER"} : SendMessage(type)
  \/ \E i \in MsgIds : DeleteMessage(i)
  \/ \E kind \in {"IMAGE", "FILE"}, input \in FileLists, caption \in Captions :
       SendAttachment(kind, input, caption)
  \/ \E b \in 1..MaxBatches, f \in 1..MaxFiles, ok \in BOOLEAN : UploadSettle(b, f, ok)
  \/ \E p \in MemberPayloads, h \in Histories : RoomJoined(p, h)
  \/ \E nick \in Nicks, p \in MemberPayloads : UserJoined(nick, p)
  \/ \E nick \in Nicks, p \in MemberPayloads : UserLeft(nick, p)
  \/ \E i \in MsgIds : NewMessage(i)
  \/ \E i \in MsgIds : MessageDeleted(i)
  \/ \E r \in Reasons : RoomClosed(r)
  \/ \E expiresIn \in ExpiresIn : RoomTtlWarning(expiresIn)
  \/ \E message \in ErrorMessages : ServerError(message)
  \/ \E u \in Nicks : UsernameSet(u)
  \/ RunDeferred
  \/ \E d \in Durations \cup {-1} : AddNotification(d)
  \/ \E id \in 1..(MaxNotifs + 1) : RemoveNotification(id)
  \/ \E t \in timers : TimerFire(t)
  \/ \E dt \in TickSteps : Tick(dt)

Spec == Init /\ [][Next]_vars

\* The message list under the events and commands that write it.
NextMessages ==
  \/ Mount
  \/ ConnectOk
  \/ JoinRoom(AliceSession)
  \/ \E h \in Histories : RoomJoined(SoloPayload, h)
  \/ \E i \in MsgIds : NewMessage(i)

SpecMessages == Init /\ [][NextMessages]_vars

\* Members joining a room that the server may close.
NextClose ==
  \/ Mount
  \/ ConnectOk
  \/ JoinRoom(AliceSession)
  \/ \E nick \in Nicks, p \in MemberPayloads : UserJoined(nick, p)
  \/ \E i \in MsgIds : NewMessage(i)
  \/ \E r \in Reasons : RoomClosed(r)

SpecClose == Init /\ [][NextClose]_vars

\* Membership events and room closure, with the clock and the notifications.
NoticeTicks == {2500}

NextNotice ==
  \/ Mount
  \/ ConnectOk
  \/ JoinRoom(AliceSession)
  \/ \E nick \in Nicks, p \in MemberPayloads : UserJoined(nick, p)
  \/ \E i \in MsgIds : NewMessage(i)
  \/ \E r \in Reasons : RoomClosed(r)
  \/ RunDeferred
  \/ \E t \in timers : TimerFire(t)
  \/ \E dt \in NoticeTicks : Tick(dt)

SpecNotice == Init /\ [][NextNotice]_vars

\* The send commands, the uploads and the connection they depend on.
NextSend ==
  \/ Mount
  \/ ConnectOk
  \/ TransportLoss
  \/ JoinRoom(AliceSession)
  \/ \E type \in {"TEXT", "STICKER"} : SendMessage(type)
  \/ \E kind \in {"IMAGE", "FILE"}, n \in 0..MaxFiles :
       SendAttachment(kind, Ascending(n), Undefined)
  \/ \E b \in 1..MaxBatches, f \in 1..MaxFiles, ok \in BOOLEAN : UploadSettle(b, f, ok)

SpecSend == Init /\ [][NextSend]_vars

\* The attachment calls and their uploads on a channel that stays up.
NextUpload ==
  \/ Mount
  \/ ConnectOk
  \/ JoinRoom(AliceSession)
  \/ \E kind \in {"IMAGE", "FILE"}, n \in 0..MaxFiles :
       SendAttachment(kind, Ascending(n), Undefined)
  \/ \E b \in 1..MaxBatches, f \in 1..MaxFiles, ok \in BOOLEAN : UploadSettle(b, f, ok)

\* Every upload eventually settles: a call with a pending upload sees one of
\* its uploads settle.
UploadsSettle ==
  \A b \in 1..MaxBatches :
    WF_vars(\E f \in 1..MaxFiles, ok \in BOOLEAN : UploadSettle(b, f, ok))

SpecUploadFair == Init /\ [][NextUpload]_vars /\ UploadsSettle

\* The notification store on its own.
NextNotif ==
  \/ \E d \in Durations \cup {-1} : AddNotification(d)
  \/ \E id \in 1..(MaxNotifs + 1) : RemoveNotification(id)
  \/ \E t \in timers : TimerFire(t)
  \/ \E dt \in TickSteps : Tick(dt)

SpecNotif == Init /\ [][NextNotif]_vars

\* Joining and rejoining a room whose members come and go.
NextJoin ==
  \/ Mount
  \/ ConnectOk
  \/ JoinRoom(AliceSession)
  \/ \E nick \in Nicks, p \in MemberPayloads : UserJoined(nick, p)
  \/ \E h \in Histories : RoomJoined(SoloPayload, h)

SpecJoin == Init /\ [][NextJoin]_vars

\* Members leaving, with the clock and the notifications.
NextLeave ==
  \/ Mount
  \/ ConnectOk
  \/ JoinRoom(AliceSession)
  \/ \E nick \in Nicks, p \in MemberPayloads : UserLeft(nick, p)
  \/ RunDeferred
  \/ \E t \in timers : TimerFire(t)
  \/ \E dt \in NoticeTicks : Tick(dt)

SpecLeave == Init /\ [][NextLeave]_vars

\* Deleting messages: the command, its round trip, and a room that may close.
NextDelete ==
  \/ Mount
  \/ ConnectOk
  \/ TransportLoss
  \/ JoinRoom(AliceSession)
  \/ \E i \in MsgIds : NewMessage(i)
  \/ \E i \in MsgIds : DeleteMessage(i)
  \/ \E i \in MsgIds : MessageDeleted(i)
  \/ \E r \in Reasons : RoomClosed(r)

SpecDelete == Init /\ [][NextDelete]_vars

\* Joining, leaving and disconnecting on a channel that may drop.
NextLeaveRoom ==
  \/ Mount
  \/ ConnectOk
  \/ TransportLoss
  \/ JoinRoom(AliceSession)
  \/ \E h \in Histories : RoomJoined(DuoPayload, h)
  \/ LeaveRoom
  \/ Disconnect

SpecLeaveRoom == Init /\ [][NextLeaveRoom]_vars

\* The channel: opening, failing, dropping, closing, with its heartbeat.
NextChannel ==
  \/ Mount
  \/ Unmount
  \/ ConnectOk
  \/ ConnectError
  \/ TransportLoss
  \/ Heartbeat
  \/ \E u \in Nicks : SetUsername(u)
  \/ \E a \in JoinArgs : JoinRoom(a)
  \/ Disconnect

SpecChannel == Init /\ [][NextChannel]_vars

\* The attachment calls with their files and captions.
NextAttach ==
  \/ Mount
  \/ ConnectOk
  \/ JoinRoom(AliceSession)
  \/ \E kind \in {"IMAGE", "FILE"}, input \in FileLists, caption \in Captions :
       SendAttachment(kind, input, caption)
  \/ \E b \in 1..MaxBatches, f \in 1..MaxFiles, ok \in BOOLEAN : UploadSettle(b, f, ok)

SpecAttach == Init /\ [][NextAttach]_vars

\* Every event of the dispatcher that raises a notification, and the turn
\* that delivers it.
NextDispatch ==
  \/ Mount
  \/ ConnectOk
  \/ JoinRoom(AliceSession)
  \/ RoomJoined(SoloPayload, << 1, 2 >>)
  \/ UserJoined("bob", DuoPayload)
  \/ UserLeft("bob", SoloPayload)
  \/ \E i \in MsgIds : MessageDeleted(i)
  \/ \E expiresIn \in ExpiresIn : RoomTtlWarning(expiresIn)
  \/ \E r \in Reasons : RoomClosed(r)
  \/ \E message \in ErrorMessages : ServerError(message)
  \/ RunDeferred

SpecDispatch == Init /\ [][NextDispatch]_vars

\* The message list under a nickname that may change.
NextIdentity ==
  \/ Mount
  \/ ConnectOk
  \/ \E a \in JoinArgs : JoinRoom(a)
  \/ \E u \in Nicks : UsernameSet(u)
  \/ RoomJoined(SoloPayload, << 1, 2 >>)
  \/ \E i \in MsgIds : NewMessage(i)

SpecIdentity == Init /\ [][NextIdentity]_vars

\* The membership events of a room.
NextMembers ==
  \/ Mount
  \/ ConnectOk
  \/ JoinRoom(AliceSession)
  \/ \E p \in MemberPayloads : RoomJoined(p, << 1 >>)
  \/ \E nick \in Nicks, p \in MemberPayloads : UserJoined(nick, p)
  \/ \E nick \in Nicks, p \in MemberPayloads : UserLeft(nick, p)

SpecMembers == Init /\ [][NextMembers]_vars

\* Deleting from a list that holds a history, possibly with an id listed
\* twice, and a join notice.
DeleteHistories == {h \in Histories : h \in {<< 1, 1 >>, << 1, 2 >>}}

NextRemove ==
  \/ Mount
  \/ ConnectOk
  \/ JoinRoom(AliceSession)
  \/ \E h \in DeleteHistories : RoomJoined(SoloPayload, h)
  \/ UserJoined("bob", DuoPayload)
  \/ \E i \in MsgIds : MessageDeleted(i)

SpecRemove == Init /\ [][NextRemove]_vars

\* Every writer of the message list.
NextOrder ==
  \/ Mount
  \/ ConnectOk
  \/ JoinRoom(AliceSession)
  \/ RoomJoined(SoloPayload, << 1, 2 >>)
  \/ UserJoined("bob", DuoPayload)
  \/ UserLeft("bob", SoloPayload)
  \/ \E i \in MsgIds : NewMessage(i)
  \/ \E i \in MsgIds : MessageDeleted(i)
  \/ \E r \in Reasons : RoomClosed(r)
  \/ LeaveRoom
  \/ Disconnect

SpecOrder == Init /\ [][NextOrder]_vars

\* The expiry warning for every number of seconds up to MaxSeconds.
NextTtl ==
  \/ Mount
  \/ ConnectOk
  \/ JoinRoom(AliceSession)
  \/ \E expiresIn \in TtlSeconds : RoomTtlWarning(expiresIn)
  \/ RunDeferred

SpecTtl == Init /\ [][NextTtl]_vars

\* ------------------------------------------------------------ properties
IdSeq(ms) == [k \in DOMAIN ms |-> ms[k].id]
Count(ms, id) == Cardinality({k \in DOMAIN ms : ms[k].id = id})
IsPrefix(s, t) == Len(s) <= Len(t) /\ SubSeq(t, 1, Len(s)) = s
Stepped(op) == last'.op = op

\* C1: a new_message whose id is already in the list leaves the list as it
\* is, any other one is appended at the end; and once a message is stored
\* once, no step (a redelivery, a room_joined in between) stores it again.
C1_NewMessageIdempotent ==
  [][ /\ \A i \in MsgIds :
           (Stepped("new_message") /\ last'.id = i) =>
             IF Count(messages, ServerId(i)) > 0
               THEN messages' = messages
               ELSE /\ Len(messages') = Len(messages) + 1
                    /\ IsPrefix(messages, messages')
                    /\ messages'[Len(messages')].id = ServerId(i)
                    /\ Count(messages', ServerId(i)) = 1
      /\ \A i \in MsgIds :
           Count(messages, ServerId(i)) = 1 => Count(messages', ServerId(i)) <= 1
    ]_vars

\* C1 witness: new_message 1 was the last event, yet message 1 is stored
\* once and is not the last entry: the delivery was a discarded redelivery.
C1_Witness ==
  /\ last = Op("new_message", 1, "")
  /\ IdSeq(messages) = << ServerId(1), ServerId(2) >>

\* The ids of history h that the list does not hold yet, in history order.
RECURSIVE NewIds(_, _)
NewIds(h, held) ==
  IF h = <<>> THEN <<>>
  ELSE (IF ServerId(Head(h)) \in held THEN <<>> ELSE << ServerId(Head(h)) >>)
         \o NewIds(Tail(h), held)

\* C2: a room_joined that finds a non-empty list keeps the list as it is and
\* appends exactly the history messages whose id the list did not hold, in
\* history order.
C2_ReconnectMerge ==
  [][ (Stepped("room_joined") /\ messages # <<>>) =>
        LET h == last'.hist
        IN /\ IsPrefix(messages, messages')
           /\ IdSeq(messages') = IdSeq(messages) \o NewIds(h, MessageIds(messages))
           /\ \A k \in (Len(messages) + 1)..Len(messages') :
                /\ ~messages'[k].isSystem
                /\ \E j \in DOMAIN h : messages'[k].nickname = SenderOf(h[j])
                                       /\ messages'[k].id = ServerId(h[j])
    ]_vars

\* C2 witness: a room_joined found two entries and left [m1, m2, m3].
C2_Witness ==
  /\ last = [Op("room_joined", 2, "") EXCEPT !.hist = << 2, 3 >>, !.p = SoloPayload]
  /\ IdSeq(messages) = << ServerId(1), ServerId(2), ServerId(3) >>

\* C7: room_closed empties the message list, zeroes the participant count,
\* empties the participant list and schedules one error notification that
\* carries the reason.
C7_RoomClosedReset ==
  [][ Stepped("room_closed") =>
        /\ messages' = <<>>
        /\ participantCount' = 0
        /\ participants' = <<>>
        /\ deferred' = Append(deferred, Note("error", "Room closed: ", last'.nick, 0))
        /\ notifications' = notifications
    ]_vars

\* C7 witness: room_closed acted on a room that held two messages, after bob
\* had joined it.
C7_Witness ==
  /\ last = Op("room_closed", 2, "expired")
  /\ messages = <<>> /\ participants = <<>> /\ participantCount = 0
  /\ deferred = << Note("info", " joined the room", "bob", 0),
                   Note("error", "Room closed: ", "expired", 0) >>

JoinSuccessCount(q) == Cardinality({k \in DOMAIN q : q[k].text = "Joined room successfully!"})

\* C9: a room_joined raises the join notification only when the one-shot
\* flag is set, and clears it; only joinRoom() sets the flag again.  So at
\* most one join notification follows each joinRoom().
C9_JoinNoticeOneShot ==
  [][ /\ Stepped("room_joined") =>
           /\ JoinSuccessCount(deferred') =
                JoinSuccessCount(deferred) + (IF shouldShowJoinNotification THEN 1 ELSE 0)
           /\ Len(deferred') = JoinSuccessCount(deferred') - JoinSuccessCount(deferred) + Len(deferred)
           /\ ~shouldShowJoinNotification'
      /\ (~shouldShowJoinNotification /\ shouldShowJoinNotification') => Stepped("joinRoom")
    ]_vars

\* C9 witness: the history [m1, m1] was loaded by a first room_joined, a
\* second one found these two entries, and one join notification exists.
C9_Witness ==
  /\ last.op = "room_joined" /\ last.id = 2
  /\ IdSeq(messages) = << ServerId(1), ServerId(1) >>
  /\ deferred = << Note("success", "Joined room successfully!", "", 0) >>

\* C10: no two entries with server-assigned ids share an id.
C10_UniqueServerIds ==
  \A j, k \in DOMAIN messages :
    (j # k /\ ~messages[j].isSystem /\ ~messages[k].isSystem) => messages[j].id # messages[k].id

\* A join notice for nick was appended less than five seconds ago.
RecentJoinNotice(nick) ==
  \E k \in DOMAIN messages :
    /\ messages[k].isSystem
    /\ messages[k].content = [nick |-> nick, text |-> " joined the room"]
    /\ now - messages[k].createdAt < DedupWindowMs

\* C3: a user_joined that follows one for the same nickname by less than
\* 5000 ms adds no second system message and no second info notification.
C3_OneNoticePerWindow ==
  [][ \A nick \in Nicks :
        (Stepped("user_joined") /\ last'.nick = nick /\ RecentJoinNotice(nick)) =>
          /\ messages' = messages
          /\ deferred' = deferred
          /\ notifications' = notifications
    ]_vars

\* The part of C3 the code keeps: the second system message is suppressed.
C3_NoticeSuppressed ==
  [][ \A nick \in Nicks :
        (Stepped("user_joined") /\ last'.nick = nick /\ RecentJoinNotice(nick)) =>
          messages' = messages
    ]_vars

NoSendMessage(cmds) == \A k \in DOMAIN cmds : cmds[k].cmd # "send_message"

\* notifications' is notifications plus one entry of the given type and text.
OneAdded(type, text) ==
  /\ Len(notifications') = Len(notifications) + 1
  /\ IsPrefix(notifications, notifications')
  /\ notifications'[Len(notifications')].type = type
  /\ notifications'[Len(notifications')].text = text

\* C4: sendMessage / sendSticker without a connection emit nothing, leave
\* the store as it is and raise one 'Not connected to server' error.
C4_DisconnectedGuard ==
  [][ ((Stepped("sendMessage") \/ Stepped("sendSticker")) /\ ~connected) =>
        /\ emitted' = <<>>
        /\ sendBuffer' = sendBuffer
        /\ UNCHANGED << storeVars, sendVars, conn, deferred >>
        /\ OneAdded("error", "Not connected to server")
    ]_vars

\* C4 witness: sendSticker was called after the transport was lost.
C4_Witness ==
  /\ last.op = "sendSticker"
  /\ conn = "Disconnected"
  /\ emitted = <<>>
  /\ notifications # <<>>
  /\ notifications[Len(notifications)].text = "Not connected to server"

C6_UploadingCleared ==
  \A b \in 1..MaxBatches :
    (batches[b].state = "uploading") ~> (batches[b].state # "uploading" /\ ~uploading)

\* C6 witness: a call whose upload failed has settled and uploading is false.
C6_Witness ==
  \E b \in 1..MaxBatches :
    /\ batches[b].state = "settled"
    /\ batches[b].files = << "pending", "failed" >>
    /\ last = Op("upload_failed", b, batches[b].kind)
    /\ ~uploading

\* What a notification was added with: its duration, 5000 ms when none given.
AddedDuration(n) == IF n.duration = -1 THEN 5000 ELSE n.duration

\* C8: a notification added with duration d > 0 (5000 when not given) stays
\* in the queue until it is removed by hand or the clock reaches add time + d,
\* at which instant its timer takes it out; it is never in the queue later.
C8_NotificationExpiry ==
  [][ /\ \A k \in DOMAIN notifications' :
           LET n == notifications'[k]
           IN AddedDuration(n) > 0 =>
                \E t \in timers' :
                  /\ t.id = n.id
                  /\ now' <= t.at
                  /\ n.id \notin NotifIds(notifications) => t.at = now + AddedDuration(n)
      /\ \A k \in DOMAIN notifications :
           LET n == notifications[k]
           IN n.id \notin NotifIds(notifications') =>
                /\ last'.id = n.id
                /\ \/ Stepped("removeNotification")
                   \/ /\ Stepped("timer")
                      /\ \E t \in timers : t.id = n.id /\ t.at = now
    ]_vars

\* C8 witness: at 2000 ms the timer of the notification added at 0 ms with
\* duration 2000 took it out of the queue, where it still was.
C8_Witness ==
  /\ last = Op("timer", 1, "expired")
  /\ now = 2000
  /\ 1 \notin NotifIds(notifications)

\* C11: a room_joined that finds the list empty makes it exactly the history
\* of the payload, in payload order; one that finds any entry, a synthesized
\* system notice included, keeps the list and merges.
C11_InitialJoinLoadsHistory ==
  [][ Stepped("room_joined") =>
        IF messages = <<>>
          THEN messages' = MapHistory(last'.hist, nickname)
          ELSE /\ IsPrefix(messages, messages')
               /\ IdSeq(messages') =
                    IdSeq(messages) \o NewIds(last'.hist, MessageIds(messages))
    ]_vars

\* C11 witness: a room_joined with history [m1, m2] found one entry, bob's
\* join notice, and kept it in front of the two messages.
C11_Witness ==
  /\ last = [Op("room_joined", 1, "") EXCEPT !.hist = << 1, 2 >>, !.p = SoloPayload]
  /\ Len(messages) = 3
  /\ messages[1].isSystem
  /\ messages[1].content = [nick |-> "bob", text |-> " joined the room"]
  /\ IdSeq(SubSeq(messages, 2, 3)) = << ServerId(1), ServerId(2) >>

\* A leave notice for nick was appended less than five seconds ago.
RecentLeaveNotice(nick) ==
  \E k \in DOMAIN messages :
    /\ messages[k].isSystem
    /\ messages[k].content = [nick |-> nick, text |-> " left the room"]
    /\ now - messages[k].createdAt < DedupWindowMs

\* C12: a user_left that follows one for the same nickname by less than
\* 5000 ms adds no second system message and no second info notification.
C12_OneLeaveNoticePerWindow ==
  [][ \A nick \in Nicks :
        (Stepped("user_left") /\ last'.nick = nick /\ RecentLeaveNotice(nick)) =>
          /\ messages' = messages
          /\ deferred' = deferred
          /\ notifications' = notifications
    ]_vars

\* C13: a message_deleted whose id no entry carries leaves the store as it
\* is and surfaces nothing: no notification is scheduled or queued.
C13_UnknownDeleteSilent ==
  [][ (Stepped("message_deleted") /\ ServerId(last'.id) \notin MessageIds(messages)) =>
        /\ UNCHANGED storeVars
        /\ deferred' = deferred
        /\ notifications' = notifications
    ]_vars

\* The part of C13 the code keeps: the store is left as it is.
C13_UnknownDeleteKeepsStore ==
  [][ (Stepped("message_deleted") /\ ServerId(last'.id) \notin MessageIds(messages)) =>
        UNCHANGED storeVars
    ]_vars

\* The steps that reset the room.
RoomReset == Stepped("room_closed") \/ Stepped("leaveRoom") \/ Stepped("disconnect")

\* C14: deleteMessage(id) while connected emits one delete_message and leaves
\* the list as it is; while not connected it emits nothing and raises one
\* error.  Short of a reset of the room, an entry leaves the list only in the
\* message_deleted step that carries its id.
C14_DeleteNotOptimistic ==
  [][ /\ Stepped("deleteMessage") =>
           /\ messages' = messages
           /\ sendBuffer' = sendBuffer
           /\ IF connected
                THEN /\ emitted' = << Cmd("delete_message", "", "", last'.id) >>
                     /\ notifications' = notifications /\ deferred' = deferred
                ELSE /\ emitted' = <<>>
                     /\ deferred' = deferred
                     /\ OneAdded("error", "Not connected to server")
      /\ \A i \in MsgIds :
           (ServerId(i) \in MessageIds(messages) /\ ServerId(i) \notin MessageIds(messages')) =>
             \/ Stepped("message_deleted") /\ last'.id = i
             \/ RoomReset
    ]_vars

\* C14 witness: deleteMessage(1) was called while connected; the command is
\* on the channel and message 1 is still in the list.
C14_Witness ==
  /\ last = Op("deleteMessage", 1, "")
  /\ emitted = << Cmd("delete_message", "", "", 1) >>
  /\ IdSeq(messages) = << ServerId(1), ServerId(2) >>

\* The commands a step hands to the channel: written on it or kept in its
\* send buffer until the channel opens.
Handed ==
  IF conn = "Connected" THEN emitted' ELSE SubSeq(sendBuffer', Len(sendBuffer) + 1, Len(sendBuffer'))

\* C15: leaveRoom() hands one leave_room command to the channel and leaves
\* the message list and the participant list empty, the participant count 0
\* and the room and session tokens empty.
C15_LeaveRoomClears ==
  [][ Stepped("leaveRoom") =>
        /\ Handed = << Cmd("leave_room", "", "", 0) >>
        /\ messages' = <<>>
        /\ participants' = <<>>
        /\ participantCount' = 0
        /\ roomToken' = "" /\ sessionToken' = ""
    ]_vars

\* C15 witness: leaveRoom() was called in a room that held two messages; the
\* command is on the channel, the room state is empty, the nickname is kept.
C15_Witness ==
  /\ last = Op("leaveRoom", 2, "")
  /\ emitted = << Cmd("leave_room", "", "", 0) >>
  /\ messages = <<>> /\ participants = <<>> /\ participantCount = 0
  /\ roomToken = "" /\ sessionToken = ""
  /\ nickname = "alice"

\* C16: leaveRoom() leaves the connection state and the nickname as they
\* are; disconnect() leaves the channel not connected and the nickname empty.
C16_LeaveAndDisconnectDiffer ==
  [][ /\ Stepped("leaveRoom") => (conn' = conn /\ nickname' = nickname /\ socket' = socket)
      /\ Stepped("disconnect") => (conn' # "Connected" /\ conn' # "Connecting" /\ nickname' = "")
    ]_vars

\* C16 witness: disconnect() was called on a connected channel in a room
\* that held two messages; the channel is closed and the nickname cleared.
C16_Witness ==
  /\ last = Op("disconnect", 2, "")
  /\ conn = "Disconnected"
  /\ emitted = << Cmd("leave_room", "", "", 0) >>
  /\ nickname = ""

\* C17: a channel that is lost or fails to open goes to Disconnected and one
\* error notification is raised for it.
C17_TransportFailureSurfaced ==
  [][ (Stepped("disconnect_event") \/ Stepped("connect_error")) =>
        /\ conn' = "Disconnected"
        /\ Len(deferred') + Len(notifications') = Len(deferred) + Len(notifications) + 1
    ]_vars

\* The part of C17 the code keeps: the state becomes Disconnected.
C17_TransportFailureDisconnects ==
  [][ (Stepped("disconnect_event") \/ Stepped("connect_error")) => conn' = "Disconnected" ]_vars

\* C18: the channel starts opening only in a joinRoom or setUsername step,
\* and becomes connected only from opening; a transport loss leaves it
\* Disconnected.
C18_NoAutoReconnect ==
  [][ /\ (conn # "Connecting" /\ conn' = "Connecting") =>
           (Stepped("joinRoom") \/ Stepped("setUsername"))
      /\ (conn # "Connected" /\ conn' = "Connected") => conn = "Connecting"
      /\ Stepped("disconnect_event") => conn' = "Disconnected"
    ]_vars

\* C18 witness: after a transport loss the channel is still Disconnected
\* although a command, disconnect(), was called since.
C18_Witness ==
  /\ last.op = "disconnect"
  /\ conn = "Disconnected"
  /\ emitted = <<>>
  /\ sendBuffer = << Cmd("leave_room", "", "", 0) >>

HasHeartbeat(cmds) == \E k \in DOMAIN cmds : cmds[k].cmd = "heartbeat"

\* C19: a heartbeat is written on the channel only by the interval callback
\* of a connected provider, and none is ever kept in the send buffer to be
\* written later; after a teardown the channel is closed.
C19_HeartbeatOnlyConnected ==
  [][ /\ HasHeartbeat(emitted') => (Stepped("heartbeat") /\ socket /\ conn = "Connected")
      /\ ~HasHeartbeat(sendBuffer')
      /\ Stepped("unmount") => (~socket' /\ conn' = "Idle")
    ]_vars

\* C19 witness: the interval callback emitted a heartbeat on the connected
\* channel of a provider that had joined room r2.
C19_Witness ==
  /\ last = Op("heartbeat", 0, "")
  /\ emitted = << Cmd("heartbeat", "", "", 0) >>
  /\ conn = "Connected"
  /\ roomToken = "r2"

\* C20: when the command of a sendImage / sendFile call goes to the channel,
\* no command of a call made after it (sendMessage, sendSticker,
\* deleteMessage) has gone to the channel before it.
C20_EmissionFollowsCallOrder ==
  [][ \A b \in 1..MaxBatches :
        ( /\ Stepped("upload_ok") /\ last'.id = b
          /\ batches[b].state = "uploading"
          /\ (emitted' # <<>> \/ sendBuffer' # sendBuffer) ) =>
            ~batches[b].passed
    ]_vars

\* The part of C20 the code keeps: a command that emits without awaiting
\* anything is on the channel at the end of its own call.
C20_SynchronousCommandsInOrder ==
  [][ ((Stepped("sendMessage") \/ Stepped("sendSticker")) /\ connected) =>
        (Len(emitted') = 1 /\ emitted'[1].cmd = "send_message" /\ emitted'[1].a = last'.nick)
    ]_vars

\* The last upload of call b is about to succeed after all the others did.
LastUploadOf(b) ==
  /\ batches[b].state = "uploading"
  /\ Cardinality({k \in DOMAIN batches[b].files : batches[b].files[k] = "pending"}) = 1
  /\ ~AnyFailed(batches[b].files)

\* C21: the step in which the last upload of a sendImage / sendFile call
\* succeeds hands one send_message to the channel, of type IMAGE resp. FILE,
\* with one attachment per input file in the order of the files and the
\* caption, or null when none or an empty one was given; and no other step
\* hands an IMAGE or FILE send_message to the channel, so none goes out while
\* an upload of the call is pending.
C21_AttachmentSuccessPath ==
  [][ /\ \A b \in 1..MaxBatches :
           (Stepped("upload_ok") /\ last'.id = b /\ LastUploadOf(b)) =>
             LET call == batches[b]
             IN /\ Len(Handed) = 1
                /\ Handed[1].cmd = "send_message"
                /\ Handed[1].a = call.kind
                /\ Handed[1].a = (IF last'.nick = "IMAGE" THEN "IMAGE" ELSE "FILE")
                /\ Handed[1].b = (IF call.caption \in {Undefined, ""} THEN Null ELSE call.caption)
                /\ Len(Handed[1].att) = Len(call.input)
                /\ \A k \in DOMAIN call.input : Handed[1].att[k].fileName = call.input[k]
      /\ \A k \in DOMAIN Handed :
           (Handed[k].cmd = "send_message" /\ Handed[k].a \in {"IMAGE", "FILE"}) =>
             \/ Stepped("upload_ok") /\ LastUploadOf(last'.id)
             \/ (Stepped("sendImage") \/ Stepped("sendFile")) /\ last'.id = 0
    ]_vars

\* C21 witness: sendImage([file 2, file 1], "look") was called, both uploads
\* succeeded, and the one command is on the channel with the attachment of
\* file 2 before that of file 1.
C21_Witness ==
  /\ last = Op("upload_ok", 1, "IMAGE")
  /\ batches[1] = IdleBatch
  /\ Len(emitted) = 1
  /\ emitted[1].cmd = "send_message" /\ emitted[1].a = "IMAGE" /\ emitted[1].b = "look"
  /\ emitted[1].att = << Attachment(2), Attachment(1) >>

HasJoinRoom(cmds) == \E k \in DOMAIN cmds : cmds[k].cmd = "join_room"

\* C22: joinRoom(roomToken, sessionToken, nickname) on an existing channel
\* records the three session fields and hands one join_room command with the
\* two tokens of the call to the channel, which is then open or opening; the
\* command is written at once on a connected channel and is otherwise kept
\* and written in the step that completes the handshake; a join_room is
\* never written on a channel that is not connected.  Without a channel
\* joinRoom changes nothing and emits nothing.
C22_JoinRoomAfterHandshake ==
  [][ /\ (Stepped("joinRoom") /\ socket) =>
           \E a \in JoinArgs :
             /\ a.nickname = last'.nick
             /\ roomToken' = a.roomToken /\ sessionToken' = a.sessionToken
             /\ nickname' = a.nickname
             /\ Handed = << Cmd("join_room", a.roomToken, a.sessionToken, 0) >>
             /\ conn' \in {"Connecting", "Connected"}
             /\ IF conn = "Connected"
                  THEN emitted' = Handed /\ sendBuffer' = sendBuffer
                  ELSE emitted' = <<>>
      /\ (Stepped("joinRoom") /\ ~socket) =>
           /\ emitted' = <<>>
           /\ UNCHANGED << storeVars, chanVars, sendVars, notifVars >>
      /\ HasJoinRoom(emitted') => conn' = "Connected"
      /\ Stepped("connect") => (emitted' = sendBuffer /\ sendBuffer' = <<>>)
      /\ (HasJoinRoom(sendBuffer) /\ ~HasJoinRoom(sendBuffer')) =>
           (Stepped("connect") \/ Stepped("unmount"))
    ]_vars

\* C22 witness: joinRoom("r2", "s2", "bob") was called on a channel that was
\* not open; the handshake has now completed and the command is written.
C22_Witness ==
  /\ last = Op("connect", 0, "")
  /\ emitted = << Cmd("join_room", "r2", "s2", 0) >>
  /\ roomToken = "r2" /\ sessionToken = "s2" /\ nickname = "bob"

\* The events of the dispatcher that raise a notification.
NotifyingEvents ==
  {"room_joined", "user_joined", "user_left", "message_deleted", "room_ttl_warning",
   "room_closed", "error"}

\* C23: a step of the dispatcher that handles room_joined, user_joined,
\* user_left, message_deleted, room_ttl_warning, room_closed or error leaves
\* the notification queue as it is: what it raises waits behind the callbacks
\* already scheduled.  The queue takes it in a later step, which runs one
\* scheduled callback and touches neither the store nor the channel.
C23_NotificationsDeferred ==
  [][ /\ last'.op \in NotifyingEvents =>
           /\ notifications' = notifications
           /\ timers' = timers
           /\ IsPrefix(deferred, deferred')
           /\ Len(deferred') <= Len(deferred) + 1
      /\ Len(deferred') > Len(deferred) => last'.op \in NotifyingEvents
      /\ notifications' # notifications =>
           /\ Stepped("notify")
           /\ deferred # <<>> /\ deferred' = Tail(deferred)
           /\ OneAdded(Head(deferred).type, Head(deferred).text)
           /\ UNCHANGED << storeVars, chanVars >>
    ]_vars

\* C23 witness: room_closed emptied a list that held bob's join notice; the
\* notification of the join has been delivered since it was scheduled, that
\* of the closure is still waiting.
C23_Witness ==
  /\ last = Op("room_closed", 1, "expired")
  /\ messages = <<>>
  /\ Len(notifications) = 1 /\ notifications[1].text = " joined the room"
  /\ deferred = << Note("error", "Room closed: ", "expired", 0) >>

\* C24: a notification added with duration 0 has no timer, and every step
\* keeps it in the queue, ahead of the entries that followed it, except a
\* removeNotification called with its id.
C24_ZeroDurationPersists ==
  [][ \A k \in DOMAIN notifications :
        LET n == notifications[k]
        IN n.duration = 0 =>
             /\ \A t \in timers : t.id # n.id
             /\ \/ Stepped("removeNotification") /\ last'.id = n.id
                \/ \E j \in DOMAIN notifications' :
                     /\ notifications'[j] = n
                     /\ j <= k
    ]_vars

\* C24 witness: the notification added first, with duration 0, is alone in
\* the queue at 5000 ms, when the timer of a later notification has just
\* taken that one out.
C24_Witness ==
  /\ last.op = "timer" /\ last.nick = "expired"
  /\ now = 5000
  /\ Len(notifications) = 1
  /\ notifications[1].duration = 0 /\ notifications[1].id = 1

\* C25: removeNotification(id) leaves the entries with another id, in their
\* order, and no entry with the id; called with an id no entry carries it
\* leaves the queue as it is, and so does a second call that directly
\* follows a call with the same id.  It touches no timer.
C25_RemoveIdempotent ==
  [][ Stepped("removeNotification") =>
        /\ notifications' = SelectSeq(notifications, LAMBDA n : n.id # last'.id)
        /\ last'.id \notin NotifIds(notifications')
        /\ last'.id \notin NotifIds(notifications) => notifications' = notifications
        /\ (last.op = "removeNotification" /\ last.id = last'.id) =>
             notifications' = notifications
        /\ timers' = timers
    ]_vars

\* C25 witness: removeNotification was called with an id that was never
\* given out, and the two entries of the queue are still there.
C25_Witness ==
  /\ last = Op("removeNotification", MaxNotifs + 1, "")
  /\ Len(notifications) = 2
  /\ NotifIds(notifications) = {1, 2}

C27_UploadingCoversUploads ==
  \A b \in 1..MaxBatches : batches[b].state = "uploading" => uploading

\* The part of C27 the code keeps: a call that starts its uploads sets the
\* flag, and a step that leaves the flag cleared is the end of some call.
C27_UploadingSetAtStart ==
  [][ /\ ((Stepped("sendImage") \/ Stepped("sendFile")) /\ connected /\ last'.id > 0) =>
           uploading'
      /\ (uploading /\ ~uploading') =>
           last'.op \in {"sendImage", "sendFile", "upload_ok", "upload_failed"}
    ]_vars

\* Two calls await their uploads at once.
C27_TwoCallsOverlap == InFlight >= 2

\* C28: a step hands a send_message to the channel only while the connection
\* state is Connected, also when the step is the end of the uploads of a
\* sendImage / sendFile call.
C28_SendOnlyWhileConnected ==
  [][ ~NoSendMessage(Handed) => conn = "Connected" ]_vars

\* The part of C28 the code keeps: the channel writes nothing while it is
\* closed; what it is handed then, it keeps until the next handshake.
C28_NothingWrittenWhileClosed ==
  [][ emitted' # <<>> => conn' = "Connected" ]_vars

JoinRoomCount(cmds) == Cardinality({k \in DOMAIN cmds : cmds[k].cmd = "join_room"})

\* C29: the step that completes the handshake writes at most one join_room
\* on the channel, however many joinRoom calls were made while the channel
\* was not connected.
C29_OnePendingJoin ==
  [][ Stepped("connect") => JoinRoomCount(emitted') <= 1 ]_vars

\* The part of C29 the code keeps: while the store holds a room token, the
\* last join_room written at the handshake carries the tokens of the most
\* recent joinRoom call.
C29_LastJoinIsLatest ==
  [][ (Stepped("connect") /\ roomToken # "" /\ HasJoinRoom(emitted')) =>
        LET k == CHOOSE j \in DOMAIN emitted' :
                   /\ emitted'[j].cmd = "join_room"
                   /\ \A i \in DOMAIN emitted' : emitted'[i].cmd = "join_room" => i <= j
        IN emitted'[k].a = roomToken /\ emitted'[k].b = sessionToken
    ]_vars

\* C30: every entry of the message list that is not a system notice is
\* marked as mine exactly when its sender is the current nickname.
C30_IsMineFollowsNickname ==
  \A k \in DOMAIN messages :
    ~messages[k].isSystem => (messages[k].isMine = (messages[k].nickname = nickname))

\* The part of C30 the code keeps: an entry is marked against the nickname
\* held when it enters the list, and the mark is never revised.
C30_IsMineSetAtInsertion ==
  [][ /\ (Stepped("new_message") \/ Stepped("room_joined")) =>
           /\ IsPrefix(messages, messages') \/ messages = <<>>
           /\ \A k \in (Len(messages) + 1)..Len(messages') :
                messages'[k].isMine = (messages'[k].nickname = nickname)
      /\ (Stepped("joinRoom") \/ Stepped("username_set")) => messages' = messages
    ]_vars

\* The places of the entries a step added to the list.
AddedPlaces ==
  IF IsPrefix(messages, messages') THEN (Len(messages) + 1)..Len(messages')
  ELSE DOMAIN messages'

\* C31: every entry that a new_message or room_joined step adds is marked as
\* mine exactly when its sender is the nickname the store holds when the
\* event is processed; that nickname is the one the most recent joinRoom
\* recorded unless a username_set, a disconnect() or a teardown wrote it
\* since, and it is not the empty nickname of registration time.
C31_HandlersReadLatestNickname ==
  [][ /\ (Stepped("new_message") \/ Stepped("room_joined")) =>
           \A k \in AddedPlaces :
             /\ messages'[k].isMine = (messages'[k].nickname = nickname)
             /\ messages'[k].nickname = nickname => messages'[k].isMine
      /\ (Stepped("joinRoom") /\ socket) => nickname' = last'.nick
      /\ nickname' # nickname =>
           last'.op \in {"joinRoom", "username_set", "disconnect", "unmount"}
    ]_vars

\* C31 witness: alice's message 1 was stored as mine under the nickname
\* alice; after joinRoom(..., "bob") the new_message 2, sent by bob, is
\* stored as mine too.
C31_Witness ==
  /\ last = Op("new_message", 2, "")
  /\ nickname = "bob" /\ roomToken = "r2"
  /\ IdSeq(messages) = << ServerId(1), ServerId(2) >>
  /\ messages[1].isMine /\ messages[2].isMine

RoomStateEmpty == messages = <<>> /\ participants = <<>> /\ participantCount = 0

\* C32: while the store holds no room token, the message list and the
\* participant list are empty and the participant count is 0.
C32_NoRoomNoRoomState == roomToken = "" => RoomStateEmpty

\* The part of C32 the code keeps: the step that clears the room token
\* leaves the room state empty, and without a token only an event of the
\* dispatcher fills it again.
C32_TokenClearedWithRoomState ==
  [][ /\ (roomToken # "" /\ roomToken' = "") => RoomStateEmpty'
      /\ (roomToken' = "" /\ RoomStateEmpty /\ ~RoomStateEmpty') =>
           last'.op \in {"room_joined", "user_joined", "user_left", "new_message"}
    ]_vars

\* C33: a room_joined, user_joined or user_left step leaves the participant
\* count equal to the count of its payload and the participant list equal to
\* the list of its payload, empty when the payload carries none, whatever the
\* store held before.
C33_ParticipantsFromPayload ==
  [][ last'.op \in {"room_joined", "user_joined", "user_left"} =>
        /\ participantCount' = last'.p.participantCount
        /\ participants' = (IF last'.p.present THEN last'.p.participants ELSE <<>>)
    ]_vars

\* C33 witness: after two membership events the last one, a user_left for
\* bob whose payload tells two participants and carries no list, left the
\* count at 2 and the list empty.
C33_Witness ==
  /\ last.op = "user_left" /\ last.nick = "bob"
  /\ ~last.p.present /\ last.p.participantCount = 2
  /\ participantCount = 2 /\ participants = <<>>
  /\ Len(messages) = 2

\* C34: message_deleted{messageId} leaves the list without any entry of that
\* id and with all its other entries, system notices included, in their
\* order; the rest of the store is untouched and one info notification
\* 'Message deleted' is scheduled.
C34_DeleteRemovesMatching ==
  [][ Stepped("message_deleted") =>
        /\ messages' = SelectSeq(messages, LAMBDA m : m.id # ServerId(last'.id))
        /\ Count(messages', ServerId(last'.id)) = 0
        /\ Len(messages') = Len(messages) - Count(messages, ServerId(last'.id))
        /\ deferred' = Append(deferred, Note("info", "Message deleted", "", 0))
        /\ notifications' = notifications
        /\ UNCHANGED << participantCount, participants, nickname, roomToken, sessionToken >>
    ]_vars

\* C34 witness: message_deleted for message 1 left message 2 alone in the
\* list, and its notification waits behind that of the join.
C34_Witness ==
  /\ last = Op("message_deleted", 1, "")
  /\ IdSeq(messages) = << ServerId(2) >>
  /\ deferred = << Note("success", "Joined room successfully!", "", 0),
                   Note("info", "Message deleted", "", 0) >>

\* s can be had from t by taking entries out.
RECURSIVE IsSubseq(_, _)
IsSubseq(s, t) ==
  IF s = <<>> THEN TRUE
  ELSE IF t = <<>> THEN FALSE
  ELSE IF Head(s) = Head(t) THEN IsSubseq(Tail(s), Tail(t))
  ELSE IsSubseq(s, Tail(t))

\* C35: every step either keeps the whole list and adds entries behind it,
\* or takes entries out of it and keeps the others in their order; no step
\* puts an entry in front of or between the entries it keeps.
C35_MessageOrderStable ==
  [][ IsPrefix(messages, messages') \/ IsSubseq(messages', messages) ]_vars

\* C35 witness: a room_joined with history [m1, m2] found message 3 in the
\* list and put the two messages behind it.
C35_Witness ==
  /\ last.op = "room_joined" /\ last.id = 1
  /\ IdSeq(messages) = << ServerId(3), ServerId(1), ServerId(2) >>

\* C36: room_closed changes neither the room token, the session token, the
\* nickname nor the channel, and writes no command; an empty list is filled
\* again only by an event the channel delivers.
C36_RoomClosedKeepsSession ==
  [][ /\ Stepped("room_closed") =>
           /\ UNCHANGED << roomToken, sessionToken, nickname, chanVars >>
           /\ emitted' = <<>>
      /\ (messages = <<>> /\ messages' # <<>>) =>
           last'.op \in {"room_joined", "user_joined", "user_left", "new_message"}
    ]_vars

\* C36 witness: room_closed emptied a list of one entry; the channel is
\* still connected and the session of alice in room r1 is still held.
C36_Witness ==
  /\ last = Op("room_closed", 1, "expired")
  /\ messages = <<>>
  /\ roomToken = "r1" /\ sessionToken = "s1" /\ nickname = "alice"
  /\ conn = "Connected" /\ emitted = <<>>

\* C37: a room_ttl_warning or error step leaves the store, the channel and
\* the uploading flag as they are and writes no command; it schedules one
\* notification: a warning, resp. an error that carries the server message,
\* or 'An error occurred' when there is none.
C37_WarningAndErrorKeepState ==
  [][ (Stepped("room_ttl_warning") \/ Stepped("error")) =>
        /\ UNCHANGED << storeVars, chanVars, sendVars, notifications, timers >>
        /\ emitted' = <<>>
        /\ Len(deferred') = Len(deferred) + 1
        /\ IsPrefix(deferred, deferred')
        /\ LET n == deferred'[Len(deferred')]
           IN IF Stepped("error")
                THEN /\ n.type = "error"
                     /\ n.text = (IF last'.nick = "" THEN "An error occurred" ELSE last'.nick)
                ELSE n.type = "warning"
    ]_vars

\* C37 witness: an error event without a message was handled in a joined
\* room; the history is still in the list and the generic error waits to be
\* shown.
C37_Witness ==
  /\ last = Op("error", 0, "")
  /\ IdSeq(messages) = << ServerId(1), ServerId(2) >>
  /\ participantCount = 1 /\ roomToken = "r1"
  /\ deferred # <<>>
  /\ deferred[Len(deferred)] = Note("error", "An error occurred", "", 0)

\* C38: the warning a room_ttl_warning with expiresIn seconds schedules tells
\* the number m of minutes with 60 m <= expiresIn < 60 (m + 1): 0 for 59, 1 for
\* 60 and for 119; and the notification delivered tells the same number.
C38_MinutesRoundDown ==
  [][ /\ Stepped("room_ttl_warning") =>
           LET n == deferred'[Len(deferred')]
               e == last'.id
           IN /\ n.type = "warning"
              /\ 60 * n.num <= e /\ e < 60 * (n.num + 1)
              /\ e = 59 => n.num = 0
              /\ e = 60 => n.num = 1
              /\ e = 119 => n.num = 1
      /\ (Stepped("notify") /\ Head(deferred).type = "warning") =>
           notifications'[Len(notifications')].num = Head(deferred).num
    ]_vars

\* C38 witness: a warning that tells 1 minute was delivered; one for 59
\* seconds has just been handled and tells 0 minutes.
C38_Witness ==
  /\ last = Op("room_ttl_warning", 59, "")
  /\ Len(notifications) = 1 /\ notifications[1].type = "warning" /\ notifications[1].num = 1
  /\ deferred = << Note("warning", "Room expires in minutes", "", 0) >>

\* The entries of q that carry another id than id.
Others(q, id) == SelectSeq(q, LAMBDA n : n.id # id)

\* C39: a removeNotification(id) step and the step of the timer of id leave
\* every entry with another id in the queue, in the order they had, and add
\* none; the timer of an entry that was dismissed before changes nothing.
C39_RemovalIsolated ==
  [][ (Stepped("removeNotification") \/ Stepped("timer")) =>
        /\ Others(notifications', last'.id) = Others(notifications, last'.id)
        /\ IsSubseq(notifications', notifications)
        /\ Len(notifications) - Len(notifications') <= 1
        /\ (Stepped("timer") /\ last'.id \notin NotifIds(notifications)) =>
             notifications' = notifications
    ]_vars

\* C39 witness: the timer of notification 1 fired after the notification
\* had been dismissed by hand; notification 2 is still in the queue.
C39_Witness ==
  /\ last = Op("timer", 1, "")
  /\ Len(notifications) = 1
  /\ notifications[1].id = 2

====
